---- MODULE Spec2Model ----
(***************************************************************************)
(* Model of src/src/libuzfs_handle.c: the uzfs ioctl channel between the   *)
(* client library (uzfs_send_ioctl / uzfs_recv_response) and the target    *)
(* process (uzfs_recv_ioctl / uzfs_send_response) over a stream socket.    *)
(*                                                                         *)
(* Memory is modelled in cells.  A struct written raw to the socket is the *)
(* sequence of its fields, one cell per field; a byte buffer is a sequence *)
(* of byte cells.  Every read()/write() system call is a step of the       *)
(* packet loops; the result of each call comes from a script, a sequence   *)
(* of per-call outcomes, so that partial transfers and failing calls are   *)
(* inputs of the model.                                                    *)
(***************************************************************************)
EXTENDS Integers, Sequences, FiniteSets, TLC

VARIABLES
    cpc,      \* client: position in uzfs_send_ioctl / uzfs_recv_response
    req,      \* client: the request argument of uzfs_send_ioctl
    czc,      \* client: the caller's zfs_cmd_t
    czc0,     \* client: the caller's zfs_cmd_t as it was before the calls
    cmem,     \* client: the caller's buffers, by pointer
    chdr,     \* client: the local uzfs_cmd of the running function
    uzc,      \* client: the local uzc of uzfs_recv_response
    cret,     \* client: return value of the last function that returned
    spc,      \* server: position in uzfs_recv_ioctl / uzfs_send_response
    szc,      \* server: the zfs_cmd_t of the request context
    sinfo,    \* server: uzfs_info_t (uzfs_cmd and uzfs_recvfd)
    sret,     \* server: return value of the last function that returned
    heap,     \* server: malloc heap
    sfd,      \* server: state of the received descriptor
    c2s,      \* socket, client to server: cells written and not yet read
    s2c,      \* socket, server to client
    fdq,      \* descriptors in flight as ancillary data, client to server
    chan,     \* which ends of the socket are closed
    faults,   \* injected transport/allocation faults in this cycle
    obs,      \* observations of this cycle: calls made, cells moved
    pk        \* the packet-level experiment of SpecPkt

vars == <<cpc, req, czc, czc0, cmem, chdr, uzc, cret, spc, szc, sinfo, sret,
          heap, sfd, c2s, s2c, fdq, chan, faults, obs, pk>>

protoVars == <<cpc, req, czc, czc0, cmem, chdr, uzc, cret, spc, szc, sinfo,
               sret, heap, sfd, c2s, s2c, fdq, chan, faults, obs>>

-----------------------------------------------------------------------------
(* Bounds of the model *)

\* largest declared size of the input and output buffers
MaxBuf == 2
\* faults (failing calls, hang-ups, failed allocations) injected per cycle
MaxFaults == 1
\* largest packet size of the packet-level experiment
MaxPkt == 3
\* longest script of per-call outcomes of the packet-level experiment
MaxScript == 3

-----------------------------------------------------------------------------
(* Program constants *)

\* uint64_t arithmetic of buf_len and len; the width is scaled to fit the
\* checker's integers, every size of the model is far below it.
UINT64_MOD == 1073741824

NULL == 0

EPIPE == 32

ZFS_IOC_SEND == 28
ZFS_IOC_RECV == 27
ZFS_IOC_RECV_NEW == 70
ZFS_IOC_SEND_NEW == 64
\* any operation outside the streaming set
ZFS_IOC_POOL_STATS == 5

Min(a, b) == IF a < b THEN a ELSE b

-----------------------------------------------------------------------------
(* uzfs_read_packet and uzfs_write_packet *)

\* the value a system call result takes when stored in the uint64_t len
ToU64(r) == r % UINT64_MOD

\* the test "(len = read(...)) < 0" on the uint64_t len
LenIsNegative(len) == len < 0

\* buf with the cells at buf_len+1 .. buf_len+Len(data) replaced by data
Store(buf, buf_len, data) ==
    [i \in 1..Len(buf) |->
        IF i > buf_len /\ i <= buf_len + Len(data) THEN data[i - buf_len]
        ELSE buf[i]]

\* The do-while loop of uzfs_read_packet from its top, with buf_len cells
\* placed so far.  A script entry -1 makes the read() call fail, an entry
\* n > 0 makes it return at most n cells; with the script used up a call
\* returns all it asked for, as far as the stream holds it.  On an empty
\* stream a call returns 0 when the peer has closed and blocks otherwise.
RECURSIVE ReadLoop(_, _, _, _, _, _, _)
ReadLoop(stream, eof, buf, size, buf_len, script, st) ==
    LET want   == size - buf_len
        failed == script # <<>> /\ Head(script) = -1
        limit  == IF script = <<>> THEN want ELSE Min(Head(script), want)
        n      == Min(limit, Len(stream))
        r      == IF failed THEN -1 ELSE n
        len    == ToU64(r)
        nlen   == ToU64(buf_len + len)
        nbuf   == IF failed THEN buf ELSE Store(buf, buf_len, SubSeq(stream, 1, n))
        nstr   == IF failed THEN stream ELSE SubSeq(stream, n + 1, Len(stream))
        nst    == [calls |-> st.calls + 1,
                   used  |-> st.used + (IF failed THEN 0 ELSE n),
                   errs  |-> st.errs + (IF failed THEN 1 ELSE 0),
                   eofs  |-> st.eofs + (IF ~failed /\ n = 0 THEN 1 ELSE 0),
                   after |-> st.after + (IF st.errs > 0 THEN 1 ELSE 0),
                   last  |-> r]
    IN  IF ~failed /\ Len(stream) = 0 /\ ~eof
        THEN [blocked |-> TRUE, ret |-> 0, buf |-> buf, rest |-> stream, st |-> st]
        ELSE IF LenIsNegative(len)
        THEN [blocked |-> FALSE, ret |-> -1, buf |-> nbuf, rest |-> nstr, st |-> nst]
        ELSE IF len # 0 /\ nlen < size
        THEN ReadLoop(nstr, eof, nbuf, size, nlen, IF script = <<>> THEN script ELSE Tail(script), nst)
        ELSE [blocked |-> FALSE, ret |-> IF nlen = size THEN 1 ELSE 0,
              buf |-> nbuf, rest |-> nstr, st |-> nst]

\* what a packet call did so far: system calls made, cells moved, failing
\* calls, calls that returned 0, calls made after a failing one, and the
\* result of the last call
NoCalls == [calls |-> 0, used |-> 0, errs |-> 0, eofs |-> 0, after |-> 0, last |-> 0]

\* a variant that reports a short read as success
uzfs_read_packet_ShortOk(stream, eof, buf, size, script) ==
    IF 0 = size
    THEN [blocked |-> FALSE, ret |-> 1, buf |-> buf, rest |-> stream, st |-> NoCalls]
    ELSE LET r == ReadLoop(stream, eof, buf, size, 0, script, NoCalls)
         IN  [r EXCEPT !.ret = IF @ = 0 THEN 1 ELSE @]

\* uzfs_read_packet(fd, ptr, size): buf is the memory at ptr before the call
uzfs_read_packet(stream, eof, buf, size, script) ==
    IF 0 = size
    THEN [blocked |-> FALSE, ret |-> 1, buf |-> buf, rest |-> stream, st |-> NoCalls]
    ELSE ReadLoop(stream, eof, buf, size, 0, script, NoCalls)

\* the cell of buf at index i (from 1); reading past the end of the memory
\* yields a poison cell
Poison == 99
CellAt(buf, i) == IF i \in 1..Len(buf) THEN buf[i] ELSE Poison

\* The do-while loop of uzfs_write_packet.  A script entry -1 makes the
\* write() call fail, n > 0 makes it accept at most n cells; with the script
\* used up a call accepts all it is given.
RECURSIVE WriteLoop(_, _, _, _, _, _)
WriteLoop(buf, size, buf_len, script, out, st) ==
    LET want   == size - buf_len
        failed == script # <<>> /\ Head(script) = -1
        n      == IF script = <<>> THEN want ELSE Min(Head(script), want)
        r      == IF failed THEN -1 ELSE n
        len    == ToU64(r)
        nlen   == ToU64(buf_len + len)
        nout   == IF failed THEN out
                  ELSE out \o [i \in 1..n |-> CellAt(buf, buf_len + i)]
        nst    == [calls |-> st.calls + 1,
                   used  |-> st.used + (IF failed THEN 0 ELSE n),
                   errs  |-> st.errs + (IF failed THEN 1 ELSE 0),
                   eofs  |-> 0,
                   after |-> st.after + (IF st.errs > 0 THEN 1 ELSE 0),
                   last  |-> r]
    IN  IF LenIsNegative(len)
        THEN [ret |-> -1, out |-> nout, st |-> nst]
        ELSE IF nlen < size
        THEN WriteLoop(buf, size, nlen, IF script = <<>> THEN script ELSE Tail(script), nout, nst)
        ELSE [ret |-> IF nlen = size THEN 1 ELSE 0, out |-> nout, st |-> nst]

\* uzfs_write_packet(fd, ptr, size): buf is the memory at ptr
uzfs_write_packet(buf, size, script) ==
    IF 0 = size
    THEN [ret |-> 1, out |-> <<>>, st |-> NoCalls]
    ELSE WriteLoop(buf, size, 0, script, <<>>, NoCalls)

-----------------------------------------------------------------------------
(* The two structs that cross the socket *)

\* uzfs_ioctl_t, the header
HdrFields == <<"ioc_num", "his_len", "packet_size", "ioc_ret">>

\* zfs_cmd_t, the descriptor: the fields this file reads or writes
ZcFields == <<"zc_nvlist_src", "zc_nvlist_src_size",
              "zc_nvlist_dst", "zc_nvlist_dst_size",
              "zc_nvlist_conf", "zc_nvlist_conf_size",
              "zc_history", "zc_history_len",
              "zc_guid", "zc_cookie", "zc_nvlist_dst_filled">>

\* the four location fields of zfs_cmd_t, and the others
PtrFields == {"zc_nvlist_src", "zc_nvlist_dst", "zc_nvlist_conf", "zc_history"}
FieldSet(fields) == {fields[i] : i \in 1..Len(fields)}
ScalarFields == FieldSet(ZcFields) \ PtrFields

\* sizeof (uzfs_ioctl_t) and sizeof (zfs_cmd_t), in cells
SizeofIoctl == Len(HdrFields)
SizeofCmd == Len(ZcFields)

\* a struct as the memory a raw write sends, and back
Image(fields, rec) == [i \in 1..Len(fields) |-> rec[fields[i]]]
IndexOf(fields, f) == CHOOSE i \in 1..Len(fields) : fields[i] = f
FromImage(fields, img) == [f \in FieldSet(fields) |-> img[IndexOf(fields, f)]]

\* uzfs_ioctl_t uzfs_cmd = {0}
ZeroHdr == [f \in FieldSet(HdrFields) |-> 0]
ZeroCmd == [f \in FieldSet(ZcFields) |-> 0]

\* the condition under which both ends transfer a descriptor
FdGate(ioc_num, zc_guid) ==
    \/ (ioc_num = ZFS_IOC_SEND /\ zc_guid = 0)
    \/ ioc_num = ZFS_IOC_RECV
    \/ ioc_num = ZFS_IOC_RECV_NEW
    \/ ioc_num = ZFS_IOC_SEND_NEW

-----------------------------------------------------------------------------
(* The server's heap: malloc and free *)

Addr == 1..4

\* content of freshly allocated memory: indeterminate, one of these per call
Garbage == {90, 91}

FreeBlock == [st |-> "free", data |-> <<>>, frees |-> 0]
EmptyHeap == [blk |-> [a \in Addr |-> FreeBlock], badfree |-> FALSE, made |-> {}]

\* malloc(size): the lowest free block, its cells all g; NULL when it fails
malloc(hp, size, fail, g) ==
    IF fail \/ ~(\E a \in Addr : hp.blk[a].st = "free")
    THEN [ptr |-> NULL, heap |-> hp]
    ELSE LET a == CHOOSE x \in Addr :
                     /\ hp.blk[x].st = "free"
                     /\ \A y \in Addr : hp.blk[y].st = "free" => x <= y
         IN  [ptr  |-> a,
              heap |-> [hp EXCEPT !.blk[a] = [st |-> "alloc",
                                              data |-> [i \in 1..size |-> g],
                                              frees |-> 0],
                                  !.made = @ \cup {a}]]

\* free(ptr): nothing for NULL; releasing a block that is not allocated, or
\* a value malloc never returned, is an invalid free
free(hp, ptr) ==
    IF ptr = NULL THEN hp
    ELSE IF ptr \in Addr
    THEN [hp EXCEPT !.blk[ptr] = [st |-> "free", data |-> <<>>, frees |-> @.frees + 1],
                    !.badfree = @ \/ hp.blk[ptr].st # "alloc"]
    ELSE [hp EXCEPT !.badfree = TRUE]

\* the memory a server pointer refers to
SDeref(hp, ptr) == IF ptr \in Addr /\ hp.blk[ptr].st = "alloc" THEN hp.blk[ptr].data ELSE <<>>

\* a variant that does not release the history buffer
uzfs_ioctl_done_NoHistory(hp, zc) ==
    free(free(free(hp, zc.zc_nvlist_src), zc.zc_nvlist_dst), zc.zc_nvlist_conf)

uzfs_ioctl_done(hp, zc) ==
    free(free(free(free(hp, zc.zc_nvlist_src), zc.zc_nvlist_dst),
              zc.zc_nvlist_conf), zc.zc_history)

\* a variant without the "if (size)" test: it allocates for size zero too
AllocStep_NoSkip(s, size, field, failAt, g) ==
    IF ~s.ok THEN s
    ELSE LET m == malloc(s.heap, size, failAt = s.n + 1, g)
         IN  IF m.ptr = NULL
             THEN [s EXCEPT !.ok = FALSE, !.n = @ + 1]
             ELSE [s EXCEPT !.zc[field] = m.ptr, !.heap = m.heap, !.n = @ + 1]

\* one "if (size) { ptr = malloc(size); if (ptr == NULL) goto err; ... }"
\* of uzfs_ioctl_init; s.n counts the malloc calls made so far
AllocStep(s, size, field, failAt, g) ==
    IF ~s.ok \/ size = 0 THEN s
    ELSE LET m == malloc(s.heap, size, failAt = s.n + 1, g)
         IN  IF m.ptr = NULL
             THEN [s EXCEPT !.ok = FALSE, !.n = @ + 1]
             ELSE [s EXCEPT !.zc[field] = m.ptr, !.heap = m.heap, !.n = @ + 1]

\* the size uzfs_ioctl_init allocates the history buffer with
his_size(cmd, zc) == IF cmd.his_len # 0 THEN cmd.his_len ELSE zc.zc_history_len

\* a variant that does not clear the four pointers first
uzfs_ioctl_init_NoClear(hp, cmd, zc, failAt, g) ==
    LET s0 == [ok |-> TRUE, zc |-> zc, heap |-> hp, n |-> 0]
        s1 == AllocStep(s0, zc.zc_nvlist_src_size, "zc_nvlist_src", failAt, g)
        s2 == AllocStep(s1, zc.zc_nvlist_dst_size, "zc_nvlist_dst", failAt, g)
        s3 == AllocStep(s2, zc.zc_nvlist_conf_size, "zc_nvlist_conf", failAt, g)
        s4 == AllocStep(s3, his_size(cmd, zc), "zc_history", failAt, g)
    IN  IF s4.ok
        THEN [ret |-> 0, zc |-> s4.zc, heap |-> s4.heap, calls |-> s4.n]
        ELSE [ret |-> -1, zc |-> s4.zc, heap |-> uzfs_ioctl_done(s4.heap, s4.zc),
              calls |-> s4.n]

\* uzfs_ioctl_init(cmd, zc): failAt = k makes the k-th malloc call return
\* NULL (0: none fails)
uzfs_ioctl_init(hp, cmd, zc, failAt, g) ==
    LET z0 == [zc EXCEPT !.zc_nvlist_src = NULL, !.zc_nvlist_dst = NULL,
                         !.zc_nvlist_conf = NULL, !.zc_history = NULL]
        s0 == [ok |-> TRUE, zc |-> z0, heap |-> hp, n |-> 0]
        s1 == AllocStep(s0, zc.zc_nvlist_src_size, "zc_nvlist_src", failAt, g)
        s2 == AllocStep(s1, zc.zc_nvlist_dst_size, "zc_nvlist_dst", failAt, g)
        s3 == AllocStep(s2, zc.zc_nvlist_conf_size, "zc_nvlist_conf", failAt, g)
        s4 == AllocStep(s3, his_size(cmd, zc), "zc_history", failAt, g)
    IN  IF s4.ok
        THEN [ret |-> 0, zc |-> s4.zc, heap |-> s4.heap, calls |-> s4.n]
        ELSE [ret |-> -1, zc |-> s4.zc, heap |-> uzfs_ioctl_done(s4.heap, s4.zc),
              calls |-> s4.n]

-----------------------------------------------------------------------------
(* The caller's request: descriptor and buffers *)

\* addresses of the caller's four buffers in the client's address space
ClientPtr == [src |-> 11, conf |-> 12, dst |-> 13, his |-> 14]

IocNums == {ZFS_IOC_SEND, ZFS_IOC_RECV, ZFS_IOC_RECV_NEW, ZFS_IOC_SEND_NEW,
            ZFS_IOC_POOL_STATS}

\* n cells base+1 .. base+n
Bytes(base, n) == [i \in 1..n |-> base + i]

\* a variant that counts the terminating NUL
Strlen_WithNul(buf) == CHOOSE i \in 1..Len(buf) : buf[i] = 0 /\ \A j \in 1..(i - 1) : buf[j] # 0

\* strlen((char *)zc->zc_history): the cells before the first NUL
Strlen(buf) == (CHOOSE i \in 1..Len(buf) : buf[i] = 0 /\ \A j \in 1..(i - 1) : buf[j] # 0) - 1

\* the history reference and declared length a caller may pass: none; a
\* declared length without a reference; a NUL-terminated string (empty or
\* not) with no declared length; a buffer of the declared length
HistoryShapes ==
    { [ptr |-> NULL, len |-> 0, mem |-> <<>>],
      [ptr |-> NULL, len |-> 1, mem |-> <<>>],
      [ptr |-> ClientPtr.his, len |-> 0, mem |-> <<0>>],
      [ptr |-> ClientPtr.his, len |-> 0, mem |-> Bytes(40, MaxBuf) \o <<0>>],
      [ptr |-> ClientPtr.his, len |-> MaxBuf, mem |-> Bytes(45, MaxBuf)] }

\* declared sizes of input, configuration and output: none, each alone, all
SizeShapes ==
    { [src |-> 0, conf |-> 0, dst |-> 0],
      [src |-> MaxBuf, conf |-> 0, dst |-> 0],
      [src |-> 0, conf |-> 1, dst |-> 0],
      [src |-> 0, conf |-> 0, dst |-> MaxBuf],
      [src |-> MaxBuf, conf |-> 1, dst |-> MaxBuf] }

Inputs ==
    { [req |-> r, guid |-> g, src |-> z.src, conf |-> z.conf, dst |-> z.dst, his |-> h] :
        r \in IocNums, g \in {0, 1}, z \in SizeShapes, h \in HistoryShapes }

\* the caller's zfs_cmd_t for an input
CallerCmd(in) ==
    [zc_nvlist_src |-> IF in.src = 0 THEN NULL ELSE ClientPtr.src,
     zc_nvlist_src_size |-> in.src,
     zc_nvlist_dst |-> IF in.dst = 0 THEN NULL ELSE ClientPtr.dst,
     zc_nvlist_dst_size |-> in.dst,
     zc_nvlist_conf |-> IF in.conf = 0 THEN NULL ELSE ClientPtr.conf,
     zc_nvlist_conf_size |-> in.conf,
     zc_history |-> in.his.ptr,
     zc_history_len |-> in.his.len,
     zc_guid |-> in.guid,
     zc_cookie |-> 3,
     zc_nvlist_dst_filled |-> 0]

\* the caller's memory for an input, by address
CallerMem(in) ==
    (ClientPtr.src :> Bytes(10, in.src)) @@ (ClientPtr.conf :> Bytes(20, in.conf)) @@
    (ClientPtr.dst :> Bytes(30, in.dst)) @@ (ClientPtr.his :> in.his.mem)

\* the memory a client pointer refers to
CDeref(mem, ptr) == IF ptr \in DOMAIN mem THEN mem[ptr] ELSE <<>>

NoObs == [clog |-> <<>>, slog |-> <<>>, cw |-> 0, sr |-> 0, sw |-> 0, cr |-> 0,
          sendfd |-> 0, recvfd |-> 0, closes |-> 0,
          cover |-> FALSE, cnull |-> FALSE, sover |-> FALSE,
          adopted |-> FALSE, cok |-> FALSE, ceof |-> FALSE, seof |-> FALSE,
          cwire |-> <<>>, cwerr |-> FALSE, cwafter |-> FALSE]

PkOff == [phase |-> "off"]

\* the values a request/response cycle starts with, on a fresh connection
StartVal(in) ==
    [cpc |-> "s_hdr", req |-> in.req, czc |-> CallerCmd(in), cmem |-> CallerMem(in),
     chdr |-> ZeroHdr, uzc |-> ZeroCmd, cret |-> 0,
     spc |-> "q_hdr", szc |-> ZeroCmd,
     sinfo |-> [uzfs_cmd |-> ZeroHdr, uzfs_recvfd |-> -1], sret |-> 0,
     sfd |-> "none", chan |-> [c |-> "open", s |-> "open"]]

\* no request under way: the caller has not built one, the server waits
Idle == [cpc |-> "idle", req |-> 0, czc |-> ZeroCmd,
         cmem |-> (ClientPtr.src :> <<>>) @@ (ClientPtr.conf :> <<>>) @@
                  (ClientPtr.dst :> <<>>) @@ (ClientPtr.his :> <<>>),
         chdr |-> ZeroHdr, uzc |-> ZeroCmd, cret |-> 0,
         spc |-> "idle", szc |-> ZeroCmd,
         sinfo |-> [uzfs_cmd |-> ZeroHdr, uzfs_recvfd |-> -1], sret |-> 0,
         sfd |-> "none", chan |-> [c |-> "open", s |-> "open"]]

Init ==
    /\ cpc = Idle.cpc /\ req = Idle.req /\ czc = Idle.czc /\ czc0 = Idle.czc
    /\ cmem = Idle.cmem /\ chdr = Idle.chdr /\ uzc = Idle.uzc /\ cret = Idle.cret
    /\ spc = Idle.spc /\ szc = Idle.szc /\ sinfo = Idle.sinfo /\ sret = Idle.sret
    /\ sfd = Idle.sfd /\ chan = Idle.chan
    /\ c2s = <<>>
    /\ s2c = <<>>
    /\ fdq = <<>>
    /\ faults = 0
    /\ obs = NoObs
    /\ heap = EmptyHeap
    /\ pk = PkOff

\* the caller builds a request and calls uzfs_send_ioctl; the server calls
\* uzfs_recv_ioctl on the connection
Begin ==
    /\ cpc = "idle"
    /\ spc = "idle"
    /\ \E in \in Inputs :
        LET v == StartVal(in)
        IN  /\ cpc' = v.cpc /\ req' = v.req /\ czc' = v.czc /\ czc0' = v.czc
            /\ cmem' = v.cmem /\ spc' = v.spc
    /\ UNCHANGED <<chdr, uzc, cret, szc, sinfo, sret, heap, sfd, c2s, s2c, fdq,
                   chan, faults, obs, pk>>

-----------------------------------------------------------------------------
(* Transport outcomes *)

\* scripts with a failing call: at once; after a partial transfer, the next
\* call going through; after a partial transfer, for good
FaultScripts == {<<-1>>, <<1, -1>>, <<1, -1, -1>>}

\* the scripts a packet call may meet: a clean one, or a faulty one while
\* the cycle's fault budget lasts
Scripts == {<<>>} \cup (IF faults < MaxFaults THEN FaultScripts ELSE {})

Cost(script) == IF script = <<>> THEN 0 ELSE 1

-----------------------------------------------------------------------------
(* Client: uzfs_send_ioctl *)

\* a variant that transfers the descriptor before the history is written
ClientOrder_FdBeforeHis == <<"s_hdr", "s_zc", "s_src", "s_conf", "s_fd", "s_his", "r_hdr">>

\* the order of the steps of uzfs_send_ioctl, and the caller's next call
ClientOrder == <<"s_hdr", "s_zc", "s_src", "s_conf", "s_his", "s_fd", "r_hdr">>

\* the position after pos in an order of steps
After(order, pos) == order[IndexOf(order, pos) + 1]

\* a variant without the strlen rule: his_len stays 0
RequestHdr_NoStrlen(request, zc, mem) ==
    [ioc_num |-> request,
     his_len |-> 0,
     packet_size |-> SizeofIoctl + SizeofCmd + zc.zc_nvlist_src_size
                     + zc.zc_nvlist_conf_size,
     ioc_ret |-> 0]

\* a variant that counts the output size in the request's packet_size
RequestHdr_WithDst(request, zc, mem) ==
    LET his_len == IF zc.zc_history_len = 0 /\ zc.zc_history # NULL
                   THEN Strlen(CDeref(mem, zc.zc_history)) ELSE 0
    IN  [ioc_num |-> request,
         his_len |-> his_len,
         packet_size |-> SizeofIoctl + SizeofCmd + zc.zc_nvlist_src_size
                         + zc.zc_nvlist_conf_size + zc.zc_nvlist_dst_size + his_len,
         ioc_ret |-> 0]

\* the header uzfs_send_ioctl builds
RequestHdr(request, zc, mem) ==
    LET his_len == IF zc.zc_history_len = 0 /\ zc.zc_history # NULL
                   THEN Strlen(CDeref(mem, zc.zc_history)) ELSE 0
    IN  [ioc_num |-> request,
         his_len |-> his_len,
         packet_size |-> SizeofIoctl + SizeofCmd + zc.zc_nvlist_src_size
                         + zc.zc_nvlist_conf_size + his_len,
         ioc_ret |-> 0]

\* one "if (uzfs_write_packet(fd, buf, size) <= 0) return (-1);" of
\* uzfs_send_ioctl; a write to a socket the peer has closed fails
ClientWrite(buf, size, tag, next) ==
    \E script \in (IF chan.s = "closed" THEN {<<-1>>} ELSE Scripts) :
        LET w == uzfs_write_packet(buf, size, script)
        IN  /\ (script # <<>> /\ chan.s # "closed") => w.st.errs > 0
            /\ c2s' = c2s \o w.out
            /\ faults' = faults + (IF chan.s = "closed" THEN 0 ELSE Cost(script))
            /\ obs' = [obs EXCEPT !.clog = Append(@, tag), !.cw = @ + Len(w.out),
                                  !.cwire = @ \o w.out,
                                  !.cwerr = @ \/ w.st.errs > 0,
                                  !.cwafter = @ \/ w.st.after > 0
                                                \/ (obs.cwerr /\ w.st.calls > 0)]
            /\ cpc' = IF w.ret <= 0 THEN "s_fail" ELSE next
            /\ cret' = IF w.ret <= 0 THEN -1 ELSE cret

SendHdr ==
    /\ cpc = "s_hdr"
    /\ chdr' = RequestHdr(req, czc, cmem)
    /\ ClientWrite(Image(HdrFields, chdr'), SizeofIoctl, "hdr", After(ClientOrder, "s_hdr"))
    /\ UNCHANGED <<req, czc, czc0, cmem, uzc, spc, szc, sinfo, sret, heap, sfd,
                   s2c, fdq, chan, pk>>

SendZc ==
    /\ cpc = "s_zc"
    /\ ClientWrite(Image(ZcFields, czc), SizeofCmd, "zc", After(ClientOrder, "s_zc"))
    /\ UNCHANGED <<req, czc, czc0, cmem, chdr, uzc, spc, szc, sinfo, sret, heap,
                   sfd, s2c, fdq, chan, pk>>

SendSrc ==
    /\ cpc = "s_src"
    /\ ClientWrite(CDeref(cmem, czc.zc_nvlist_src), czc.zc_nvlist_src_size,
                   "src", After(ClientOrder, "s_src"))
    /\ UNCHANGED <<req, czc, czc0, cmem, chdr, uzc, spc, szc, sinfo, sret, heap,
                   sfd, s2c, fdq, chan, pk>>

SendConf ==
    /\ cpc = "s_conf"
    /\ ClientWrite(CDeref(cmem, czc.zc_nvlist_conf), czc.zc_nvlist_conf_size,
                   "conf", After(ClientOrder, "s_conf"))
    /\ UNCHANGED <<req, czc, czc0, cmem, chdr, uzc, spc, szc, sinfo, sret, heap,
                   sfd, s2c, fdq, chan, pk>>

SendHis ==
    /\ cpc = "s_his"
    /\ ClientWrite(CDeref(cmem, czc.zc_history), chdr.his_len, "his",
                   After(ClientOrder, "s_his"))
    /\ UNCHANGED <<req, czc, czc0, cmem, chdr, uzc, spc, szc, sinfo, sret, heap,
                   sfd, s2c, fdq, chan, pk>>

\* the outcomes of a descriptor-transfer call: it works, or fails while the
\* fault budget lasts
FdOutcomes == {TRUE} \cup (IF faults < MaxFaults THEN {FALSE} ELSE {})

\* the tail of uzfs_send_ioctl: do_sendfd(fd, zc->zc_cookie) when the
\* operation asks for it, then return; after a return of 0 the caller goes
\* on to uzfs_recv_response
SendFd ==
    /\ cpc = "s_fd"
    /\ \E ok \in (IF FdGate(chdr.ioc_num, czc.zc_guid) THEN FdOutcomes ELSE {TRUE}) :
        LET call == FdGate(chdr.ioc_num, czc.zc_guid)
        IN  /\ fdq' = IF call /\ ok THEN Append(fdq, czc.zc_cookie) ELSE fdq
            /\ faults' = faults + (IF ok THEN 0 ELSE 1)
            /\ obs' = IF call
                      THEN [obs EXCEPT !.clog = Append(@, "fd"), !.sendfd = @ + 1,
                                       !.cwafter = @ \/ obs.cwerr]
                      ELSE obs
            /\ cpc' = IF ok THEN After(ClientOrder, "s_fd") ELSE "s_fail"
            /\ cret' = IF ok THEN 0 ELSE -1
    /\ UNCHANGED <<req, czc, czc0, cmem, chdr, uzc, spc, szc, sinfo, sret, heap,
                   sfd, c2s, s2c, chan, pk>>

-----------------------------------------------------------------------------
(* Client: uzfs_recv_response *)

\* the outcomes of one uzfs_read_packet call on a stream: one per script the
\* call may meet, leaving out a call that blocks for more data and a faulty
\* script none of whose failing calls is reached
ReadOutcomes(stream, eof, buf, size) ==
    { o \in { [script |-> sc, r |-> uzfs_read_packet(stream, eof, buf, size, sc)] :
                sc \in Scripts } :
        /\ ~o.r.blocked
        /\ o.script # <<>> => o.r.st.errs > 0 }

\* the memory a read of size cells lands in: the buffer, and what lies
\* behind it when size is larger
Unwritten == -7
PadTo(buf, size) ==
    IF size > Len(buf) THEN buf \o [i \in 1..(size - Len(buf)) |-> Unwritten] ELSE buf
Spilled(buf, before) == \E i \in (before + 1)..Len(buf) : buf[i] # Unwritten

\* a variant that leaves the history pointer of the peer's image in place
RestorePointers_NoHistory(peer, zc) ==
    [peer EXCEPT !.zc_nvlist_src = zc.zc_nvlist_src,
                 !.zc_nvlist_dst = zc.zc_nvlist_dst,
                 !.zc_nvlist_conf = zc.zc_nvlist_conf]

\* "backup the pointers", "*zc = uzc", "restore the pointers"
RestorePointers(peer, zc) ==
    [peer EXCEPT !.zc_nvlist_src = zc.zc_nvlist_src,
                 !.zc_nvlist_dst = zc.zc_nvlist_dst,
                 !.zc_nvlist_conf = zc.zc_nvlist_conf,
                 !.zc_history = zc.zc_history]

RespReadHdr ==
    /\ cpc = "r_hdr"
    /\ \E o \in ReadOutcomes(s2c, chan.s = "closed", Image(HdrFields, chdr), SizeofIoctl) :
        /\ s2c' = o.r.rest
        /\ chdr' = FromImage(HdrFields, o.r.buf)
        /\ faults' = faults + Cost(o.script)
        /\ obs' = [obs EXCEPT !.clog = Append(@, "r_hdr"), !.cr = @ + o.r.st.used,
                              !.ceof = @ \/ o.r.st.eofs > 0]
        /\ cpc' = IF o.r.ret <= 0 THEN "done" ELSE "r_zc"
        /\ cret' = IF o.r.ret <= 0 THEN EPIPE ELSE cret
    /\ UNCHANGED <<req, czc, czc0, cmem, uzc, spc, szc, sinfo, sret, heap, sfd,
                   c2s, fdq, chan, pk>>

RespReadZc ==
    /\ cpc = "r_zc"
    /\ \E o \in ReadOutcomes(s2c, chan.s = "closed", Image(ZcFields, uzc), SizeofCmd) :
        /\ s2c' = o.r.rest
        /\ uzc' = FromImage(ZcFields, o.r.buf)
        /\ faults' = faults + Cost(o.script)
        /\ obs' = [obs EXCEPT !.clog = Append(@, "r_zc"), !.cr = @ + o.r.st.used,
                              !.adopted = o.r.ret > 0,
                              !.ceof = @ \/ o.r.st.eofs > 0]
        /\ czc' = IF o.r.ret <= 0 THEN czc ELSE RestorePointers(uzc', czc)
        /\ cpc' = IF o.r.ret <= 0 THEN "done" ELSE "r_his"
        /\ cret' = IF o.r.ret <= 0 THEN EPIPE ELSE cret
    /\ UNCHANGED <<req, czc0, cmem, chdr, spc, szc, sinfo, sret, heap, sfd,
                   c2s, fdq, chan, pk>>

\* the outcomes of a uzfs_read_packet into the caller's memory at ptr: with
\* no memory at ptr (a null reference) read() fails with EFAULT
CallerReadOutcomes(ptr, size) ==
    IF ptr \notin DOMAIN cmem /\ size # 0
    THEN { [script |-> <<>>,
            r |-> uzfs_read_packet(s2c, chan.s = "closed", PadTo(<<>>, size), size, <<-1>>)] }
    ELSE ReadOutcomes(s2c, chan.s = "closed", PadTo(CDeref(cmem, ptr), size), size)

\* a uzfs_read_packet of size cells into the caller's memory at ptr
ClientReadInto(ptr, size, tag, next, retval) ==
    \E o \in CallerReadOutcomes(ptr, size) :
        /\ s2c' = o.r.rest
        /\ cmem' = IF ptr \in DOMAIN cmem
                   THEN [cmem EXCEPT ![ptr] = SubSeq(o.r.buf, 1, Len(cmem[ptr]))]
                   ELSE cmem
        /\ faults' = faults + Cost(o.script)
        /\ obs' = [obs EXCEPT !.clog = Append(@, tag), !.cr = @ + o.r.st.used,
                              !.cover = @ \/ (ptr \in DOMAIN cmem
                                              /\ Spilled(o.r.buf, Len(cmem[ptr]))),
                              !.cnull = @ \/ (ptr \notin DOMAIN cmem
                                              /\ Spilled(o.r.buf, 0)),
                              !.cok = o.r.ret > 0 /\ next = "done",
                              !.ceof = @ \/ o.r.st.eofs > 0]
        /\ cpc' = IF o.r.ret <= 0 THEN "done" ELSE next
        /\ cret' = IF o.r.ret <= 0 THEN EPIPE ELSE retval

RespReadHis ==
    /\ cpc = "r_his"
    /\ IF czc.zc_history # NULL /\ czc.zc_history_len # 0
       THEN ClientReadInto(czc.zc_history, czc.zc_history_len, "r_his", "r_dst", cret)
       ELSE /\ cpc' = "r_dst"
            /\ UNCHANGED <<s2c, cmem, faults, obs, cret>>
    /\ UNCHANGED <<req, czc, czc0, chdr, uzc, spc, szc, sinfo, sret, heap, sfd,
                   c2s, fdq, chan, pk>>

\* the last read of uzfs_recv_response and its return (uzfs_cmd.ioc_ret)
RespReadDst ==
    /\ cpc = "r_dst"
    /\ IF uzc.zc_nvlist_dst_filled # 0
       THEN ClientReadInto(czc.zc_nvlist_dst, czc.zc_nvlist_dst_size, "r_dst", "done",
                           chdr.ioc_ret)
       ELSE /\ cpc' = "done"
            /\ cret' = chdr.ioc_ret
            /\ obs' = [obs EXCEPT !.cok = TRUE]
            /\ UNCHANGED <<s2c, cmem, faults>>
    /\ UNCHANGED <<req, czc, czc0, chdr, uzc, spc, szc, sinfo, sret, heap, sfd,
                   c2s, fdq, chan, pk>>

-----------------------------------------------------------------------------
(* Server: uzfs_recv_ioctl *)

RecvHdr ==
    /\ spc = "q_hdr"
    /\ \E o \in ReadOutcomes(c2s, chan.c = "closed", Image(HdrFields, sinfo.uzfs_cmd),
                             SizeofIoctl) :
        /\ c2s' = o.r.rest
        /\ sinfo' = [uzfs_cmd |-> FromImage(HdrFields, o.r.buf), uzfs_recvfd |-> -1]
        /\ faults' = faults + Cost(o.script)
        /\ obs' = [obs EXCEPT !.slog = Append(@, "hdr"), !.sr = @ + o.r.st.used,
                              !.seof = @ \/ o.r.st.eofs > 0]
        /\ spc' = IF o.r.ret <= 0 THEN "q_fail" ELSE "q_zc"
        /\ sret' = IF o.r.ret <= 0 THEN -1 ELSE sret
    /\ UNCHANGED <<cpc, req, czc, czc0, cmem, chdr, uzc, cret, szc, heap, sfd,
                   s2c, fdq, chan, pk>>

RecvZc ==
    /\ spc = "q_zc"
    /\ \E o \in ReadOutcomes(c2s, chan.c = "closed", Image(ZcFields, szc), SizeofCmd) :
        /\ c2s' = o.r.rest
        /\ szc' = FromImage(ZcFields, o.r.buf)
        /\ faults' = faults + Cost(o.script)
        /\ obs' = [obs EXCEPT !.slog = Append(@, "zc"), !.sr = @ + o.r.st.used,
                              !.seof = @ \/ o.r.st.eofs > 0]
        /\ spc' = IF o.r.ret <= 0 THEN "q_fail" ELSE "q_init"
        /\ sret' = IF o.r.ret <= 0 THEN -1 ELSE sret
    /\ UNCHANGED <<cpc, req, czc, czc0, cmem, chdr, uzc, cret, sinfo, heap, sfd,
                   s2c, fdq, chan, pk>>

\* "if (uzfs_ioctl_init(uzfs_cmd, zc) < 0) return (-1);"
RecvInit ==
    /\ spc = "q_init"
    /\ \E failAt \in 0..(IF faults < MaxFaults THEN 4 ELSE 0), g \in Garbage :
        LET i == uzfs_ioctl_init(heap, sinfo.uzfs_cmd, szc, failAt, g)
        IN  /\ failAt <= i.calls
            /\ failAt # 0 => i.ret < 0
            /\ heap' = i.heap
            /\ szc' = i.zc
            /\ faults' = faults + (IF failAt = 0 THEN 0 ELSE 1)
            /\ obs' = [obs EXCEPT !.slog = Append(@, "init")]
            /\ spc' = IF i.ret < 0 THEN "q_fail" ELSE "q_src"
            /\ sret' = IF i.ret < 0 THEN -1 ELSE sret
    /\ UNCHANGED <<cpc, req, czc, czc0, cmem, chdr, uzc, cret, sinfo, sfd,
                   c2s, s2c, fdq, chan, pk>>

\* the server's heap after a read of size cells landed at ptr
HeapStore(hp, ptr, buf) ==
    IF ptr \in Addr /\ hp.blk[ptr].st = "alloc"
    THEN [hp EXCEPT !.blk[ptr].data = SubSeq(buf, 1, Len(@))]
    ELSE hp

\* one "if (uzfs_read_packet(fd, (void *) ptr, size) <= 0) goto err;" of
\* uzfs_recv_ioctl, with the err: label's uzfs_ioctl_done and return (-1)
ServerReadInto(ptr, size, tag, next) ==
    \E o \in ReadOutcomes(c2s, chan.c = "closed", PadTo(SDeref(heap, ptr), size), size) :
        /\ c2s' = o.r.rest
        /\ heap' = IF o.r.ret <= 0
                   THEN uzfs_ioctl_done(HeapStore(heap, ptr, o.r.buf), szc)
                   ELSE HeapStore(heap, ptr, o.r.buf)
        /\ faults' = faults + Cost(o.script)
        /\ obs' = [obs EXCEPT !.slog = Append(@, tag), !.sr = @ + o.r.st.used,
                              !.sover = @ \/ Spilled(o.r.buf, Len(SDeref(heap, ptr))),
                              !.seof = @ \/ o.r.st.eofs > 0]
        /\ spc' = IF o.r.ret <= 0 THEN "q_fail" ELSE next
        /\ sret' = IF o.r.ret <= 0 THEN -1 ELSE sret

RecvSrc ==
    /\ spc = "q_src"
    /\ ServerReadInto(szc.zc_nvlist_src, szc.zc_nvlist_src_size, "src", "q_conf")
    /\ UNCHANGED <<cpc, req, czc, czc0, cmem, chdr, uzc, cret, szc, sinfo, sfd,
                   s2c, fdq, chan, pk>>

RecvConf ==
    /\ spc = "q_conf"
    /\ ServerReadInto(szc.zc_nvlist_conf, szc.zc_nvlist_conf_size, "conf", "q_his")
    /\ UNCHANGED <<cpc, req, czc, czc0, cmem, chdr, uzc, cret, szc, sinfo, sfd,
                   s2c, fdq, chan, pk>>

RecvHis ==
    /\ spc = "q_his"
    /\ ServerReadInto(szc.zc_history, sinfo.uzfs_cmd.his_len, "his", "q_fd")
    /\ UNCHANGED <<cpc, req, czc, czc0, cmem, chdr, uzc, cret, szc, sinfo, sfd,
                   s2c, fdq, chan, pk>>

\* the number do_recvfd gives the descriptor it received
NewFd == 5

\* what do_recvfd(fd) may do: hand over the descriptor in flight; fail when
\* none is in flight and the peer has closed; fail while the fault budget
\* lasts.  With none in flight and the peer alive it blocks.
RecvFdOutcomes ==
    (IF fdq # <<>> THEN {"ok"} ELSE {})
    \cup (IF fdq = <<>> /\ chan.c = "closed" THEN {"eof"} ELSE {})
    \cup (IF faults < MaxFaults THEN {"fault"} ELSE {})

\* the tail of uzfs_recv_ioctl: do_recvfd when the operation asks for it,
\* then return (0); on failure the err: label
RecvFd ==
    /\ spc = "q_fd"
    /\ \E oc \in (IF FdGate(sinfo.uzfs_cmd.ioc_num, szc.zc_guid)
                  THEN RecvFdOutcomes ELSE {"skip"}) :
        /\ sinfo' = IF oc = "skip" THEN sinfo
                    ELSE [sinfo EXCEPT !.uzfs_recvfd = IF oc = "ok" THEN NewFd ELSE -1]
        /\ sfd' = IF oc = "ok" THEN "open" ELSE sfd
        /\ fdq' = IF oc = "ok" THEN Tail(fdq) ELSE fdq
        /\ heap' = IF oc \in {"ok", "skip"} THEN heap ELSE uzfs_ioctl_done(heap, szc)
        /\ faults' = faults + (IF oc = "fault" THEN 1 ELSE 0)
        /\ obs' = IF oc = "skip" THEN obs
                  ELSE [obs EXCEPT !.slog = Append(@, "fd"), !.recvfd = @ + 1]
        /\ spc' = IF oc \in {"ok", "skip"} THEN "exec" ELSE "q_fail"
        /\ sret' = IF oc \in {"ok", "skip"} THEN 0 ELSE -1
    /\ UNCHANGED <<cpc, req, czc, czc0, cmem, chdr, uzc, cret, szc, c2s, s2c,
                   chan, pk>>

-----------------------------------------------------------------------------
(* Server: the command-execution engine, between the two calls *)

\* return codes a command may produce
RetCodes == {0, EPIPE}

\* The engine sets the return code, may fill the output buffer and set
\* output-filled, and may change the correlation field.
Exec ==
    /\ spc = "exec"
    /\ \E rc \in RetCodes, filled \in {0, 1}, guid \in {0, 1} :
        /\ sinfo' = [sinfo EXCEPT !.uzfs_cmd.ioc_ret = rc]
        /\ szc' = [szc EXCEPT !.zc_nvlist_dst_filled = filled, !.zc_guid = guid]
        /\ heap' = IF filled = 1 /\ szc.zc_nvlist_dst \in Addr
                   THEN [heap EXCEPT !.blk[szc.zc_nvlist_dst].data = Bytes(50, Len(@))]
                   ELSE heap
    /\ spc' = "p_close"
    /\ UNCHANGED <<cpc, req, czc, czc0, cmem, chdr, uzc, cret, sret, sfd, c2s, s2c,
                   fdq, chan, faults, obs, pk>>

-----------------------------------------------------------------------------
(* Server: uzfs_send_response *)

\* The head of uzfs_send_response: VERIFY0(close(ucmd_info->uzfs_recvfd))
\* when the operation (with the descriptor as it is now) asks for it, and
\* the packet size.  close() of a descriptor that is not open fails, and
\* VERIFY0 then aborts the process.
RespClose ==
    /\ spc = "p_close"
    /\ LET call == FdGate(sinfo.uzfs_cmd.ioc_num, szc.zc_guid)
           bad  == call /\ (sinfo.uzfs_recvfd < 0 \/ sfd # "open")
       IN  /\ sfd' = IF call /\ ~bad THEN "closed" ELSE sfd
           /\ obs' = IF call THEN [obs EXCEPT !.closes = @ + 1] ELSE obs
           /\ spc' = IF bad THEN "abort" ELSE "p_hdr"
           /\ chan' = IF bad THEN [chan EXCEPT !.s = "closed"] ELSE chan
           /\ sinfo' = [sinfo EXCEPT !.uzfs_cmd.packet_size =
                            (IF szc.zc_nvlist_dst_filled # 0
                             THEN szc.zc_nvlist_dst_size ELSE 0)
                            + SizeofIoctl + SizeofCmd + szc.zc_history_len]
    /\ UNCHANGED <<cpc, req, czc, czc0, cmem, chdr, uzc, cret, szc, sret, heap,
                   c2s, s2c, fdq, faults, pk>>

\* one "if (uzfs_write_packet(fd, buf, size) <= 0) goto out;" of
\* uzfs_send_response; a failure, and the last write's success, go through
\* the out: label's uzfs_ioctl_done and return
ServerWrite(buf, size, tag, next) ==
    \E script \in (IF chan.c = "closed" THEN {<<-1>>} ELSE Scripts) :
        LET w == uzfs_write_packet(buf, size, script)
            out == w.ret <= 0 \/ next = "p_done"
        IN  /\ (script # <<>> /\ chan.c # "closed") => w.st.errs > 0
            /\ s2c' = s2c \o w.out
            /\ faults' = faults + (IF chan.c = "closed" THEN 0 ELSE Cost(script))
            /\ obs' = [obs EXCEPT !.slog = Append(@, tag), !.sw = @ + Len(w.out),
                                  !.sover = @ \/ size > Len(buf)]
            /\ heap' = IF out THEN uzfs_ioctl_done(heap, szc) ELSE heap
            /\ spc' = IF out THEN "p_done" ELSE next
            /\ sret' = IF w.ret <= 0 THEN -1 ELSE IF out THEN 0 ELSE sret

RespHdr ==
    /\ spc = "p_hdr"
    /\ ServerWrite(Image(HdrFields, sinfo.uzfs_cmd), SizeofIoctl, "p_hdr", "p_zc")
    /\ UNCHANGED <<cpc, req, czc, czc0, cmem, chdr, uzc, cret, szc, sinfo, sfd,
                   c2s, fdq, chan, pk>>

RespZc ==
    /\ spc = "p_zc"
    /\ ServerWrite(Image(ZcFields, szc), SizeofCmd, "p_zc", "p_his")
    /\ UNCHANGED <<cpc, req, czc, czc0, cmem, chdr, uzc, cret, szc, sinfo, sfd,
                   c2s, fdq, chan, pk>>

RespHis ==
    /\ spc = "p_his"
    /\ ServerWrite(SDeref(heap, szc.zc_history), szc.zc_history_len, "p_his", "p_dst")
    /\ UNCHANGED <<cpc, req, czc, czc0, cmem, chdr, uzc, cret, szc, sinfo, sfd,
                   c2s, fdq, chan, pk>>

\* the output buffer, written only when output-filled is set; then err = 0,
\* the out: label and the return
RespDst ==
    /\ spc = "p_dst"
    /\ ServerWrite(SDeref(heap, szc.zc_nvlist_dst),
                   IF szc.zc_nvlist_dst_filled # 0 THEN szc.zc_nvlist_dst_size ELSE 0,
                   "p_dst", "p_done")
    /\ UNCHANGED <<cpc, req, czc, czc0, cmem, chdr, uzc, cret, szc, sinfo, sfd,
                   c2s, fdq, chan, pk>>

-----------------------------------------------------------------------------
(* The callers and the environment *)

\* after uzfs_send_ioctl failed the caller gives the connection up
ClientClose ==
    /\ cpc = "s_fail"
    /\ cpc' = "closed"
    /\ chan' = [chan EXCEPT !.c = "closed"]
    /\ UNCHANGED <<req, czc, czc0, cmem, chdr, uzc, cret, spc, szc, sinfo, sret,
                   heap, sfd, c2s, s2c, fdq, faults, obs, pk>>

\* after uzfs_recv_ioctl or uzfs_send_response failed the server gives the
\* connection up
ServerClose ==
    /\ spc = "q_fail" \/ (spc = "p_done" /\ sret < 0)
    /\ spc' = "closed"
    /\ chan' = [chan EXCEPT !.s = "closed"]
    /\ UNCHANGED <<cpc, req, czc, czc0, cmem, chdr, uzc, cret, szc, sinfo, sret,
                   heap, sfd, c2s, s2c, fdq, faults, obs, pk>>

ClientEnded == cpc \in {"done", "closed"}
ServerEnded == spc \in {"p_done", "closed", "abort"}

\* both ends are through with the cycle: the next one runs on a fresh
\* connection; a server process that died is replaced by a new one with an
\* empty heap, a live one keeps its heap
NewCycle ==
    /\ ClientEnded
    /\ ServerEnded
    /\ cpc' = Idle.cpc /\ req' = Idle.req /\ czc' = Idle.czc /\ czc0' = Idle.czc
    /\ cmem' = Idle.cmem /\ chdr' = Idle.chdr /\ uzc' = Idle.uzc /\ cret' = Idle.cret
    /\ spc' = Idle.spc /\ szc' = Idle.szc /\ sinfo' = Idle.sinfo /\ sret' = Idle.sret
    /\ sfd' = Idle.sfd /\ chan' = Idle.chan
    /\ c2s' = <<>>
    /\ s2c' = <<>>
    /\ fdq' = <<>>
    /\ faults' = 0
    /\ obs' = NoObs
    /\ heap' = IF spc = "abort" THEN EmptyHeap
               ELSE [heap EXCEPT !.made = {},
                                 !.blk = [a \in Addr |->
                                            IF heap.blk[a].st = "free" THEN FreeBlock
                                            ELSE heap.blk[a]]]
    /\ UNCHANGED pk

Next ==
    \/ Begin
    \/ SendHdr \/ SendZc \/ SendSrc \/ SendConf \/ SendHis \/ SendFd
    \/ RespReadHdr \/ RespReadZc \/ RespReadHis \/ RespReadDst
    \/ RecvHdr \/ RecvZc \/ RecvInit \/ RecvSrc \/ RecvConf \/ RecvHis \/ RecvFd
    \/ Exec
    \/ RespClose \/ RespHdr \/ RespZc \/ RespHis \/ RespDst
    \/ ClientClose \/ ServerClose
    \/ NewCycle

Spec == Init /\ [][Next]_vars

-----------------------------------------------------------------------------
(* The packet calls on their own: one call of uzfs_read_packet or          *)
(* uzfs_write_packet for every size, stream and script of call outcomes    *)

\* what one underlying call may return: failure, or a count of cells
CallOutcomes == {-1} \cup (1..(MaxPkt - 1))

RECURSIVE SeqsUpTo(_, _)
SeqsUpTo(S, n) ==
    IF n = 0 THEN {<<>>}
    ELSE LET shorter == SeqsUpTo(S, n - 1)
         IN  shorter \cup {Append(q, x) : q \in shorter, x \in S}

PktInputs ==
    [size : 0..MaxPkt, avail : 0..(MaxPkt + 1), eof : BOOLEAN,
     script : SeqsUpTo(CallOutcomes, MaxScript)]

InitPkt ==
    /\ cpc = Idle.cpc /\ req = Idle.req /\ czc = Idle.czc /\ czc0 = Idle.czc
    /\ cmem = Idle.cmem /\ chdr = Idle.chdr /\ uzc = Idle.uzc /\ cret = Idle.cret
    /\ spc = Idle.spc /\ szc = Idle.szc /\ sinfo = Idle.sinfo /\ sret = Idle.sret
    /\ sfd = Idle.sfd /\ chan = Idle.chan
    /\ c2s = <<>>
    /\ s2c = <<>>
    /\ fdq = <<>>
    /\ faults = 0
    /\ obs = NoObs
    /\ heap = EmptyHeap
    /\ \E in \in PktInputs : pk = [phase |-> "start", in |-> in]

\* uzfs_read_packet(fd, ptr, size) on a stream holding the cells 1 .. avail,
\* into memory not written before; a call that blocks never returns
PktRead ==
    /\ pk.phase = "start"
    /\ LET r == uzfs_read_packet(Bytes(0, pk.in.avail), pk.in.eof,
                                 PadTo(<<>>, pk.in.size), pk.in.size, pk.in.script)
       IN  /\ ~r.blocked
           /\ pk' = [phase |-> "read", in |-> pk.in, ret |-> r.ret, buf |-> r.buf,
                     st |-> r.st]
    /\ UNCHANGED protoVars

\* uzfs_write_packet(fd, ptr, size) from memory holding the cells 1 .. size
PktWrite ==
    /\ pk.phase = "start"
    /\ LET w == uzfs_write_packet(Bytes(0, pk.in.size), pk.in.size, pk.in.script)
       IN  pk' = [phase |-> "write", in |-> pk.in, ret |-> w.ret, buf |-> w.out,
                  st |-> w.st]
    /\ UNCHANGED protoVars

NextPkt == PktRead \/ PktWrite

SpecPkt == InitPkt /\ [][NextPkt]_vars

-----------------------------------------------------------------------------
(* The server against any client: uzfs_recv_ioctl and uzfs_send_response   *)
(* on a request whose header and descriptor hold any lengths               *)

\* the requests a peer can put on the socket: any header and descriptor
\* history length, with or without values in the location fields, followed
\* by the cells the header and the descriptor declare
AnyRequests ==
    [ioc : {ZFS_IOC_POOL_STATS, ZFS_IOC_RECV}, his_len : 0..MaxBuf,
     zc_history_len : 0..MaxBuf, z : SizeShapes, ptrs : BOOLEAN]

AnyRequestHdr(r) ==
    [ioc_num |-> r.ioc, his_len |-> r.his_len,
     packet_size |-> SizeofIoctl + SizeofCmd + r.z.src + r.z.conf + r.his_len,
     ioc_ret |-> 0]

AnyRequestCmd(r) ==
    [zc_nvlist_src |-> IF r.ptrs THEN ClientPtr.src ELSE NULL,
     zc_nvlist_src_size |-> r.z.src,
     zc_nvlist_dst |-> IF r.ptrs THEN ClientPtr.dst ELSE NULL,
     zc_nvlist_dst_size |-> r.z.dst,
     zc_nvlist_conf |-> IF r.ptrs THEN ClientPtr.conf ELSE NULL,
     zc_nvlist_conf_size |-> r.z.conf,
     zc_history |-> IF r.ptrs THEN ClientPtr.his ELSE NULL,
     zc_history_len |-> r.zc_history_len,
     zc_guid |-> 0,
     zc_cookie |-> 3,
     zc_nvlist_dst_filled |-> 0]

\* the server is in uzfs_recv_ioctl, the whole request is on the socket
\* (with its descriptor in flight when the operation transfers one), and
\* the peer sends nothing more
InitAnyClient ==
    /\ cpc = "peer" /\ req = Idle.req /\ czc = Idle.czc /\ czc0 = Idle.czc
    /\ cmem = Idle.cmem /\ chdr = Idle.chdr /\ uzc = Idle.uzc /\ cret = Idle.cret
    /\ spc = "q_hdr" /\ szc = Idle.szc /\ sinfo = Idle.sinfo /\ sret = Idle.sret
    /\ sfd = Idle.sfd /\ chan = Idle.chan
    /\ s2c = <<>>
    /\ faults = 0
    /\ obs = NoObs
    /\ heap = EmptyHeap
    /\ pk = PkOff
    /\ \E r \in AnyRequests :
        /\ c2s = Image(HdrFields, AnyRequestHdr(r)) \o Image(ZcFields, AnyRequestCmd(r))
                 \o Bytes(10, r.z.src) \o Bytes(20, r.z.conf) \o Bytes(40, r.his_len)
        /\ fdq = IF FdGate(r.ioc, 0) THEN <<3>> ELSE <<>>

NextAnyClient ==
    \/ RecvHdr \/ RecvZc \/ RecvInit \/ RecvSrc \/ RecvConf \/ RecvHis \/ RecvFd
    \/ Exec
    \/ RespClose \/ RespHdr \/ RespZc \/ RespHis \/ RespDst
    \/ ServerClose

SpecAnyClient == InitAnyClient /\ [][NextAnyClient]_vars

-----------------------------------------------------------------------------
(* The client against any server: uzfs_recv_response on a response whose   *)
(* descriptor image holds any lengths                                      *)

\* the callers' requests of this experiment
AnyServerInputs == {in \in Inputs : in.req = ZFS_IOC_POOL_STATS /\ in.guid = 0}

\* the responses a peer can put on the socket: any history length, output
\* size and output-filled flag, with or without values in the location
\* fields, followed by the cells the descriptor declares
AnyResponses ==
    [zc_history_len : 0..(MaxBuf + 1), zc_nvlist_dst_size : 0..(MaxBuf + 1),
     filled : {0, 1}, ptrs : BOOLEAN]

AnyResponseCmd(r) ==
    [zc_nvlist_src |-> IF r.ptrs THEN 1 ELSE NULL,
     zc_nvlist_src_size |-> 0,
     zc_nvlist_dst |-> IF r.ptrs THEN 2 ELSE NULL,
     zc_nvlist_dst_size |-> r.zc_nvlist_dst_size,
     zc_nvlist_conf |-> IF r.ptrs THEN 3 ELSE NULL,
     zc_nvlist_conf_size |-> 0,
     zc_history |-> IF r.ptrs THEN 4 ELSE NULL,
     zc_history_len |-> r.zc_history_len,
     zc_guid |-> 0,
     zc_cookie |-> 3,
     zc_nvlist_dst_filled |-> r.filled]

\* uzfs_send_ioctl has returned 0, the caller is in uzfs_recv_response and
\* the whole response is on the socket
InitAnyServer ==
    /\ spc = "peer" /\ szc = Idle.szc /\ sinfo = Idle.sinfo /\ sret = Idle.sret
    /\ sfd = Idle.sfd /\ chan = Idle.chan
    /\ uzc = Idle.uzc /\ cret = Idle.cret
    /\ c2s = <<>>
    /\ fdq = <<>>
    /\ faults = 0
    /\ obs = NoObs
    /\ heap = EmptyHeap
    /\ pk = PkOff
    /\ cpc = "r_hdr"
    /\ \E in \in AnyServerInputs :
        /\ req = in.req
        /\ czc = CallerCmd(in) /\ czc0 = CallerCmd(in)
        /\ cmem = CallerMem(in)
        /\ chdr = RequestHdr(in.req, CallerCmd(in), CallerMem(in))
    /\ \E r \in AnyResponses :
        s2c = Image(HdrFields, [ZeroHdr EXCEPT !.ioc_num = ZFS_IOC_POOL_STATS])
              \o Image(ZcFields, AnyResponseCmd(r))
              \o Bytes(60, r.zc_history_len)
              \o Bytes(50, IF r.filled # 0 THEN r.zc_nvlist_dst_size ELSE 0)

NextAnyServer == RespReadHdr \/ RespReadZc \/ RespReadHis \/ RespReadDst

SpecAnyServer == InitAnyServer /\ [][NextAnyServer]_vars

-----------------------------------------------------------------------------
(* Properties *)

InLog(log, tag) == \E i \in 1..Len(log) : log[i] = tag

\* C4: uzfs_read_packet and uzfs_write_packet report success only when
\* exactly size cells were transferred: on success the buffer (the stream,
\* for a write) holds the first size cells in order and exactly size cells
\* were consumed (written); for size zero no transport call is made; a
\* failing transport call is never followed by a success result.
C4_ExactTransfer ==
    pk.phase \in {"read", "write"} =>
        /\ pk.in.size = 0 => pk.st.calls = 0
        /\ pk.ret > 0 =>
            /\ pk.st.used = pk.in.size
            /\ pk.buf = Bytes(0, pk.in.size)
        /\ pk.st.errs > 0 => pk.ret <= 0

\* the value uzfs_read_packet returns when the peer closes before any cell
\* of a packet of this size arrived
ShortRet(size) == uzfs_read_packet(<<>>, TRUE, PadTo(<<>>, size), size, <<>>).ret

\* C5: the value uzfs_read_packet returns when the underlying read fails
\* differs from the value it returns when the peer closes early.
C5_ErrorDistinctFromShort ==
    (pk.phase = "read" /\ pk.st.calls > 0 /\ pk.st.last = -1) =>
        pk.ret # ShortRet(pk.in.size)


\* the streaming operations, and the rule the descriptor transfer is
\* documented to follow
StreamingSet == {ZFS_IOC_SEND, ZFS_IOC_RECV, ZFS_IOC_RECV_NEW, ZFS_IOC_SEND_NEW}
ShouldTransfer(ioc_num, zc_guid) ==
    ioc_num \in StreamingSet /\ (ioc_num = ZFS_IOC_SEND => zc_guid # 0)

\* every buffer allocated in this cycle has been released, once
Released == \A a \in heap.made : heap.blk[a].st = "free" /\ heap.blk[a].frees = 1

IsPrefix(a, b) == Len(a) <= Len(b) /\ \A i \in 1..Len(a) : a[i] = b[i]
IsReqTag(t) == t \in {"hdr", "zc", "init", "src", "conf", "his", "fd"}

\* C1: once uzfs_recv_response has read the header and the peer's
\* descriptor image, the caller's descriptor holds its own pre-call input,
\* configuration, output and history references, and every scalar field and
\* the output-filled flag equal the peer's image.
C1_ReferenceSurvival ==
    obs.adopted =>
        /\ \A f \in PtrFields : czc[f] = czc0[f]
        /\ \A f \in ScalarFields : czc[f] = uzc[f]

\* C1 witness: uzfs_recv_response returned after adopting an image all of
\* whose location fields differ from the caller's
C1_Witness ==
    /\ cpc = "done"
    /\ obs.adopted
    /\ \A f \in PtrFields : uzc[f] # czc0[f]

\* C2: uzfs_send_response releases each of the four server-owned buffers
\* exactly once, whichever of its writes succeeds or fails; no buffer stays
\* allocated after the cycle's send_response returned and none is freed
\* twice, over any sequence of cycles.
C2_ResponseReleasesOnce ==
    /\ spc = "p_done" => Released /\ ~heap.badfree
    /\ spc = "idle" => ~heap.badfree /\ \A a \in Addr : heap.blk[a].st = "free"

\* C2 witness: uzfs_send_response returned failure with all four buffers
\* allocated by the request
C2_Witness ==
    /\ spc = "p_done"
    /\ sret < 0
    /\ Cardinality(heap.made) = 4

\* C3: whenever uzfs_recv_ioctl fails after the header and the descriptor
\* were read, it returns failure and every buffer allocated for the context
\* has been released exactly once.
C3_RecvFailureReleases ==
    (spc = "q_fail" /\ InLog(obs.slog, "init")) =>
        /\ sret = -1
        /\ Released
        /\ ~heap.badfree

\* C3 witness: the allocation of the configuration buffer failed with the
\* input buffer already allocated
C3_Witness ==
    /\ spc = "q_fail"
    /\ obs.slog = <<"hdr", "zc", "init">>
    /\ szc.zc_nvlist_src_size # 0 /\ szc.zc_nvlist_src # NULL
    /\ szc.zc_nvlist_conf_size # 0 /\ szc.zc_nvlist_conf = NULL
    /\ heap.blk[szc.zc_nvlist_src].st = "free"

\* C6: in uzfs_send_ioctl and in uzfs_recv_ioctl a descriptor-transfer call
\* is made if and only if the operation is in the streaming set, and for
\* SEND only when zc_guid is non-zero.
C6_TransferIffStreamingAndGuid ==
    /\ obs.sendfd > 0 => ShouldTransfer(req, czc0.zc_guid)
    /\ (cpc \in {"r_hdr", "r_zc", "r_his", "r_dst", "done"}
            /\ ShouldTransfer(req, czc0.zc_guid)) => obs.sendfd > 0
    /\ (spc \in {"exec", "q_fail"} /\ obs.recvfd > 0) =>
            ShouldTransfer(sinfo.uzfs_cmd.ioc_num, szc.zc_guid)
    /\ (spc = "exec" /\ ShouldTransfer(sinfo.uzfs_cmd.ioc_num, szc.zc_guid)) =>
            obs.recvfd > 0

\* C7: uzfs_send_ioctl writes header, descriptor, input, configuration and
\* history in this order and transfers the descriptor only after all of
\* them; uzfs_recv_ioctl reads them in the same order and receives the
\* descriptor only after all of them; the hand-off never precedes or
\* interleaves with the request's main-stream cells.
C7_RequestOrdering ==
    /\ IsPrefix(SelectSeq(obs.clog, IsReqTag), <<"hdr", "zc", "src", "conf", "his", "fd">>)
    /\ IsPrefix(SelectSeq(obs.slog, IsReqTag),
                <<"hdr", "zc", "init", "src", "conf", "his", "fd">>)
    /\ cpc \in {"s_hdr", "s_zc", "s_src", "s_conf", "s_his"} =>
            obs.sendfd = 0 /\ fdq = <<>> /\ sfd = "none"
    /\ spc \in {"q_hdr", "q_zc", "q_init", "q_src", "q_conf", "q_his"} => obs.recvfd = 0
    /\ (obs.recvfd > 0 /\ faults = 0) => c2s = <<>> /\ obs.sr = obs.cw

\* C7 witness: the server received the descriptor of a request that carried
\* input, configuration and history cells
C7_Witness ==
    /\ sfd = "open"
    /\ obs.slog = <<"hdr", "zc", "init", "src", "conf", "his", "fd">>
    /\ szc.zc_nvlist_src_size > 0 /\ szc.zc_nvlist_conf_size > 0
    /\ sinfo.uzfs_cmd.his_len > 0

\* the caller's history as the descriptor declares it: the declared length,
\* or the NUL-terminated string when the declared length is zero
CallerHistory ==
    LET mem == CDeref(cmem, czc0.zc_history)
    IN  IF czc0.zc_history_len # 0 THEN SubSeq(mem, 1, czc0.zc_history_len)
        ELSE SubSeq(mem, 1, Strlen(mem))

\* input, configuration and scalar fields arrived as the caller has them
RequestArrived ==
    /\ SDeref(heap, szc.zc_nvlist_src) = CDeref(cmem, czc0.zc_nvlist_src)
    /\ SDeref(heap, szc.zc_nvlist_conf) = CDeref(cmem, czc0.zc_nvlist_conf)
    /\ \A f \in ScalarFields : szc[f] = czc0[f]

\* C8 as stated: over a fault-free channel a request sent by
\* uzfs_send_ioctl and received by uzfs_recv_ioctl leaves the server with
\* input, configuration and history buffers identical to the caller's, also
\* for a history whose length is declared non-zero in the descriptor, and
\* with all scalar fields equal.
C8_RoundTripAnyHistory ==
    (spc = "exec" /\ faults = 0) =>
        /\ RequestArrived
        /\ czc0.zc_history # NULL => SDeref(heap, szc.zc_history) = CallerHistory

\* C8 amended: over a fault-free channel input, configuration and scalar
\* fields arrive identical; a history passed as a NUL-terminated string with
\* declared length zero arrives identical; with a non-zero declared length
\* no history cell is sent (his_len is 0) and the server's history buffer is
\* a fresh allocation of the declared length with indeterminate content.
C8_RoundTrip ==
    (spc = "exec" /\ faults = 0) =>
        /\ RequestArrived
        /\ (czc0.zc_history # NULL /\ czc0.zc_history_len = 0) =>
                SDeref(heap, szc.zc_history) = CallerHistory
        /\ czc0.zc_history_len # 0 =>
                /\ sinfo.uzfs_cmd.his_len = 0
                /\ Len(SDeref(heap, szc.zc_history)) = czc0.zc_history_len
                /\ \A i \in 1..czc0.zc_history_len :
                        SDeref(heap, szc.zc_history)[i] \in Garbage

\* C8 witness: a request with input, configuration and a non-empty history
\* string was received
C8_Witness ==
    /\ spc = "exec"
    /\ faults = 0
    /\ czc0.zc_nvlist_src_size > 0 /\ czc0.zc_nvlist_conf_size > 0
    /\ czc0.zc_history_len = 0
    /\ Len(SDeref(heap, szc.zc_history)) > 0

\* C9: in a fault-free request/response cycle, for any combination of
\* null/non-null history reference and zero/non-zero declared history length,
\* uzfs_recv_response returns the return code the server placed in the
\* header, and with output-filled set the caller's output buffer holds
\* exactly the server's output.
C9_ResponseRoundTrip ==
    (cpc = "done" /\ faults = 0 /\ spc = "p_done" /\ sret = 0) =>
        /\ cret = sinfo.uzfs_cmd.ioc_ret
        /\ szc.zc_nvlist_dst_filled # 0 =>
                cmem[ClientPtr.dst] = Bytes(50, czc0.zc_nvlist_dst_size)

\* C10: the result uzfs_recv_response returns for a fully successful
\* exchange differs from the channel-error value EPIPE, for every return
\* code the peer can place in the header.
C10_ChannelErrorDistinct ==
    (cpc = "done" /\ obs.cok) => cret # EPIPE

PastClose == spc \in {"p_hdr", "p_zc", "p_his", "p_dst", "p_done", "abort"}

\* C12: for every behaviour of the command execution between
\* uzfs_recv_ioctl and uzfs_send_response, uzfs_send_response closes the
\* received descriptor exactly once if the context holds one and makes no
\* close call if uzfs_recvfd is -1; the descriptor is not leaked and not
\* closed twice.
C12_DescriptorLifecycle ==
    PastClose =>
        /\ sinfo.uzfs_recvfd >= 0 => obs.closes = 1 /\ sfd = "closed"
        /\ sinfo.uzfs_recvfd = -1 => obs.closes = 0
        /\ spc # "abort"

\* the caller passes its history as a NUL-terminated string: reference
\* non-null, declared length zero
HistoryIsString == czc0.zc_history # NULL /\ czc0.zc_history_len = 0

\* the number N of characters of a NUL-terminated string
StringChars(str) ==
    CHOOSE n \in 0..(Len(str) - 1) : str[n + 1] = 0 /\ \A j \in 1..n : str[j] # 0

\* C13: when the caller's descriptor declares history length zero and its
\* history reference points at a NUL-terminated string of N characters,
\* uzfs_send_ioctl (none of whose write calls fails) sends a header whose
\* his_len is N and writes exactly those N cells after the configuration.
C13_HistoryString ==
    (cpc = "s_fd" /\ faults = 0 /\ HistoryIsString) =>
        LET str  == CDeref(cmem, czc0.zc_history)
            N    == StringChars(str)
            wire == obs.cwire
            fix  == SizeofIoctl + SizeofCmd + czc0.zc_nvlist_src_size
                    + czc0.zc_nvlist_conf_size
        IN  /\ wire[IndexOf(HdrFields, "his_len")] = N
            /\ Len(wire) = fix + N
            /\ SubSeq(wire, fix - czc0.zc_nvlist_conf_size + 1, fix)
                    = CDeref(cmem, czc0.zc_nvlist_conf)
            /\ SubSeq(wire, fix + 1, fix + N) = SubSeq(str, 1, N)

\* C13 witness: a request with configuration cells and a non-empty history
\* string has been written
C13_Witness ==
    /\ cpc = "s_fd"
    /\ faults = 0
    /\ HistoryIsString
    /\ czc0.zc_nvlist_conf_size > 0
    /\ chdr.his_len = MaxBuf
    /\ Len(obs.cwire) > SizeofIoctl + SizeofCmd + czc0.zc_nvlist_conf_size

\* C14: a failure of an underlying write at any step of uzfs_send_ioctl,
\* also one that follows a partial write, aborts the request:
\* uzfs_send_ioctl returns -1 and makes no further write or
\* descriptor-transfer call after the failed one.
C14_WriteFailureAborts ==
    obs.cwerr =>
        /\ cpc \in {"s_fail", "closed"}
        /\ cret = -1
        /\ ~obs.cwafter

Max(a, b) == IF a > b THEN a ELSE b

\* C15: uzfs_recv_ioctl allocates the history buffer with a size equal to
\* the larger of the header's his_len and the descriptor's zc_history_len,
\* for every pair of values of the two fields.
C15_HistoryAllocLarger ==
    (spc = "q_src" /\ InLog(obs.slog, "init")) =>
        LET larger == Max(sinfo.uzfs_cmd.his_len, szc.zc_history_len)
        IN  /\ larger = 0 => szc.zc_history = NULL
            /\ larger # 0 => /\ szc.zc_history \in Addr
                              /\ Len(SDeref(heap, szc.zc_history)) = larger

\* C16: the packet_size of every header sent equals the number of cells
\* written on the stream for that message (no write call failing): on the
\* request path header + descriptor + input + configuration + his_len, the
\* output size excluded; on the response path header + descriptor +
\* zc_history_len + the output size if output-filled is set.
C16_PacketSize ==
    /\ (cpc = "s_fd" /\ faults = 0) =>
            LET sent == obs.cwire[IndexOf(HdrFields, "packet_size")]
            IN  /\ sent = Len(obs.cwire)
                /\ sent = SizeofIoctl + SizeofCmd + czc0.zc_nvlist_src_size
                          + czc0.zc_nvlist_conf_size
                          + obs.cwire[IndexOf(HdrFields, "his_len")]
    /\ (spc = "p_done" /\ sret = 0 /\ faults = 0) =>
            /\ sinfo.uzfs_cmd.packet_size = obs.sw
            /\ obs.sw = SizeofIoctl + SizeofCmd + szc.zc_history_len
                        + (IF szc.zc_nvlist_dst_filled # 0
                           THEN szc.zc_nvlist_dst_size ELSE 0)

\* C16 witness: a response with history and output cells was written in
\* answer to a request that declared input, configuration and output
C16_Witness ==
    /\ spc = "p_done" /\ sret = 0 /\ faults = 0
    /\ szc.zc_history_len > 0
    /\ szc.zc_nvlist_dst_filled # 0 /\ szc.zc_nvlist_dst_size > 0
    /\ czc0.zc_nvlist_src_size > 0 /\ czc0.zc_nvlist_conf_size > 0
    /\ obs.sw > SizeofIoctl + SizeofCmd + szc.zc_history_len

\* the reference is null for a declared size of zero and otherwise a block
\* allocated in this call with that size
FreshOrNull(ptr, size) ==
    IF size = 0 THEN ptr = NULL
    ELSE /\ ptr \in heap.made
         /\ heap.blk[ptr].st = "alloc"
         /\ Len(heap.blk[ptr].data) = size

\* the location values the client's image carried
ClientValues == {ClientPtr.src, ClientPtr.conf, ClientPtr.dst, ClientPtr.his}

\* C17: after a successful uzfs_recv_ioctl each of the server's buffer
\* references is null (declared size zero) or a fresh allocation of the
\* declared size made during this call; the location values that arrived in
\* the client's image are not kept past the allocation step and never
\* passed to free, also when uzfs_recv_ioctl fails before or during
\* allocation.
C17_FreshBuffers ==
    /\ spc = "exec" =>
            /\ FreshOrNull(szc.zc_nvlist_src, szc.zc_nvlist_src_size)
            /\ FreshOrNull(szc.zc_nvlist_dst, szc.zc_nvlist_dst_size)
            /\ FreshOrNull(szc.zc_nvlist_conf, szc.zc_nvlist_conf_size)
            /\ FreshOrNull(szc.zc_history, his_size(sinfo.uzfs_cmd, szc))
            /\ \A f, h \in PtrFields : (f # h /\ szc[f] # NULL) => szc[f] # szc[h]
    /\ InLog(obs.slog, "init") => \A f \in PtrFields : szc[f] \notin ClientValues
    /\ (spc = "q_fail" /\ ~InLog(obs.slog, "init")) => heap.made = {}
    /\ ~heap.badfree

\* C17 witness: uzfs_recv_ioctl succeeded on an image that carried the
\* client's four location values, allocating all four buffers
C17_Witness ==
    /\ spc = "exec"
    /\ \A f \in PtrFields : czc0[f] \in ClientValues /\ szc[f] \in Addr
    /\ Cardinality(heap.made) = 4

\* C18: after every fault-free request/response cycle the cells
\* uzfs_recv_ioctl read are as many as uzfs_send_ioctl wrote and the cells
\* uzfs_recv_response read are as many as uzfs_send_response wrote, also
\* for a request with a null history reference and a non-zero declared
\* history length; nothing unread remains on the connection.
C18_StreamSynchronised ==
    (cpc = "done" /\ obs.cok /\ spc = "p_done" /\ sret = 0 /\ faults = 0) =>
        /\ obs.sr = obs.cw
        /\ obs.cr = obs.sw
        /\ c2s = <<>>
        /\ s2c = <<>>

\* the size the server's history buffer is allocated with (0 for none)
HistoryAllocated == Len(SDeref(heap, szc.zc_history))

\* C19: for every pair of header and descriptor history lengths a peer
\* can send, the history cells uzfs_recv_ioctl reads into the history
\* buffer and the cells uzfs_send_response writes from it do not exceed the
\* size the buffer was allocated with, and neither is non-zero while the
\* history reference is null.
C19_ServerHistoryBounds ==
    /\ spc = "q_his" => sinfo.uzfs_cmd.his_len <= HistoryAllocated
    /\ spc = "p_his" => szc.zc_history_len <= HistoryAllocated
    /\ ~obs.sover

\* C20: for every response image a peer can send, uzfs_recv_response
\* writes no more cells into the caller's output buffer than the output
\* size the caller declared before the call, no more cells into the
\* caller's history buffer than the caller's history length, and none
\* through a null caller reference.
C20_ClientBufferBounds ==
    /\ (cpc = "r_his" /\ czc.zc_history # NULL) =>
            czc.zc_history_len <= czc0.zc_history_len
    /\ (cpc = "r_dst" /\ uzc.zc_nvlist_dst_filled # 0 /\ czc.zc_nvlist_dst # NULL) =>
            czc.zc_nvlist_dst_size <= czc0.zc_nvlist_dst_size
    /\ ~obs.cover
    /\ ~obs.cnull

====
